---- MODULE Spec2Model ----
(***************************************************************************)
(* Model of app.py: the exchange-rate dashboard.  One script run = the     *)
(* cached call of load_and_preprocess_data followed by the sidebar, the    *)
(* filter and the rendering.  Text is modelled as sequences of character   *)
(* codes (ASCII): ',' = 44, '-' = 45, '/' = 47, '0'..'9' = 48..57,          *)
(* 'x' = 120, "nan" = <<110, 97, 110>>.                                     *)
(***************************************************************************)
EXTENDS Integers, Sequences, FiniteSets, TLC

VARIABLES
    file,               \* the CSV at the fixed path: exists, decodes, table
    cache,              \* st.cache_data entry of load_and_preprocess_data
    loads,              \* number of executions of the function body
    tried,              \* encodings handed to pd.read_csv by the last body execution
    returnedAt,         \* source line at which the last body execution returned (0: never ran)
    started,            \* the script has run at least once in this process
    df,                 \* module-level df of the last run
    currency_list,      \* sidebar options of the last run
    measure_list,
    selected_currency,  \* widget values of the last run
    selected_measure,
    filtered_df,        \* df[mask] of the last run
    ui                  \* elements rendered by the last run

vars == << file, cache, loads, tried, returnedAt, started, df, currency_list,
           measure_list, selected_currency, selected_measure, filtered_df, ui >>

----------------------------------------------------------------------------
(* Bounds of the model *)

NumCols == 2
MaxFilled == 2
MaxLoads == 2

----------------------------------------------------------------------------
(* Generic helpers *)

Range(s) == { s[i] : i \in 1..Len(s) }

\* Lexicographic order on strings (sequences of character codes).
RECURSIVE StrLessFrom(_, _, _)
StrLessFrom(a, b, i) ==
    IF i > Len(a) THEN i <= Len(b)
    ELSE IF i > Len(b) THEN FALSE
    ELSE IF a[i] = b[i] THEN StrLessFrom(a, b, i + 1)
    ELSE a[i] < b[i]

StrLess(a, b) == StrLessFrom(a, b, 1)

IsDigits(s) == Len(s) > 0 /\ \A i \in 1..Len(s) : s[i] \in 48..57

RECURSIVE NumVal(_)
NumVal(s) == IF s = <<>> THEN 0
             ELSE 10 * NumVal(SubSeq(s, 1, Len(s) - 1)) + (s[Len(s)] - 48)

\* Missing values: a nullable number is <<>> (NaN / NaT) or <<v>>.
NaN == <<>>
NaT == <<>>

----------------------------------------------------------------------------
(* Input files *)

encodings == << "utf-8", "cp949", "euc-kr" >>

\* One raw row per series; the labels of the rows (계정항목, 측정항목).
RowKeys == << [cur |-> "KRW/USD", meas |-> "avg"],
              [cur |-> "KRW/USD", meas |-> "end"],
              [cur |-> "KRW/DEM", meas |-> "avg"] >>

\* Raw cell texts: blank, "x", "7", "1,2".
Blank == <<>>
Cells == { Blank, <<120>>, <<55>>, <<49, 44, 50>> }

\* Column headers: "2024/10", "2024/2", "2024-01", "2023/12".
HeaderPool == << <<50, 48, 50, 52, 47, 49, 48>>,
                 <<50, 48, 50, 52, 47, 50>>,
                 <<50, 48, 50, 52, 45, 48, 49>>,
                 <<50, 48, 50, 51, 47, 49, 50>> >>

\* Header lists: NumCols consecutive headers of the pool (cyclically); the
\* headers of one file are pairwise distinct, as pandas makes them.
HeaderLists ==
    { [c \in 1..NumCols |-> HeaderPool[((s + c - 2) % Len(HeaderPool)) + 1]] :
        s \in 1..Len(HeaderPool) }

Filled(cells) ==
    Cardinality({ rc \in (1..Len(cells)) \X (1..NumCols) : cells[rc[1]][rc[2]] # Blank })

CellGrids ==
    { x \in [1..Len(RowKeys) -> [1..NumCols -> Cells]] : Filled(x) <= MaxFilled }

FirstHeaders == [c \in 1..NumCols |-> HeaderPool[c]]

\* Tables with the 측정항목 column, and tables without it.
Tables ==
    { [headers |-> h, hasMeasure |-> TRUE, cells |-> cs] : h \in HeaderLists, cs \in CellGrids }
    \cup
    { [headers |-> FirstHeaders, hasMeasure |-> FALSE, cells |-> cs] : cs \in CellGrids }

SampleTable ==
    [headers |-> FirstHeaders, hasMeasure |-> TRUE,
     cells   |-> [r \in 1..Len(RowKeys) |-> [c \in 1..NumCols |-> <<55>>]]]

\* A file decodes under a set of encodings; its content is one table.
Files ==
    { [exists |-> TRUE, decodes |-> {"utf-8", "cp949", "euc-kr"}, table |-> t] : t \in Tables }
    \cup
    { [exists |-> TRUE, decodes |-> d, table |-> SampleTable] : d \in SUBSET Range(encodings) }

----------------------------------------------------------------------------
(* load_and_preprocess_data *)

\* Variant of the read loop without the break: every encoding is tried.
RECURSIVE ReadLoop_nobreak(_, _, _)
ReadLoop_nobreak(f, i, seen) ==
    IF i > Len(encodings)
    THEN IF f.decodes # {} THEN [at |-> 70, tried |-> seen, ok |-> TRUE]
         ELSE [at |-> 40, tried |-> seen, ok |-> FALSE]
    ELSE IF ~f.exists
         THEN [at |-> 35, tried |-> Append(seen, encodings[i]), ok |-> FALSE]
         ELSE ReadLoop_nobreak(f, i + 1, Append(seen, encodings[i]))

\* The read loop from encoding i on.
RECURSIVE ReadLoop(_, _, _)
ReadLoop(f, i, seen) ==
    IF i > Len(encodings)
    THEN [at |-> 40, tried |-> seen, ok |-> FALSE]
    ELSE LET enc == encodings[i] IN
         IF ~f.exists
         THEN [at |-> 35, tried |-> Append(seen, enc), ok |-> FALSE]
         ELSE IF enc \in f.decodes
         THEN [at |-> 70, tried |-> Append(seen, enc), ok |-> TRUE]
         ELSE ReadLoop(f, i + 1, Append(seen, enc))

\* The 측정항목 value of a long row whose frame has no such column.
NoMeasure == ""

\* df.melt: one long row per (column, raw row), columns outermost; the
\* identifier columns present in the file are carried through.
Melt(t) ==
    LET nr == Len(t.cells) IN
    [k \in 1..(nr * Len(t.headers)) |->
        LET c == ((k - 1) \div nr) + 1
            r == ((k - 1) % nr) + 1
        IN [idx |-> k, cur |-> RowKeys[r].cur,
            meas |-> IF t.hasMeasure THEN RowKeys[r].meas ELSE NoMeasure,
            period |-> t.headers[c], raw |-> t.cells[r][c]]]

\* astype(str): a missing cell prints as "nan".
AsStr(cell) == IF cell = Blank THEN <<110, 97, 110>> ELSE cell

\* Variant: the separators are left in place.
StripCommas_keep(s) == s

StripCommas(s) == SelectSeq(s, LAMBDA ch : ch # 44)

\* pd.to_numeric(errors='coerce') on the texts of the model's alphabet.
ToNumeric(s) == IF IsDigits(s) THEN << NumVal(s) >> ELSE NaN

\* pd.to_datetime(format='%Y/%m', errors='coerce'): four year digits, '/',
\* one or two month digits; the result is counted in months.
ToDatetime(h) ==
    LET n == Len(h) IN
    IF /\ n \in {6, 7}
       /\ IsDigits(SubSeq(h, 1, 4))
       /\ h[5] = 47
       /\ IsDigits(SubSeq(h, 6, n))
       /\ NumVal(SubSeq(h, 6, n)) \in 1..12
    THEN << 12 * NumVal(SubSeq(h, 1, 4)) + NumVal(SubSeq(h, 6, n)) >>
    ELSE NaT

Clean(rows) ==
    [k \in 1..Len(rows) |->
        [idx |-> rows[k].idx, cur |-> rows[k].cur, meas |-> rows[k].meas,
         period |-> rows[k].period,
         rate |-> ToNumeric(StripCommas(AsStr(rows[k].raw)))]]

\* Variant: rows without a rate are kept.
DropNaRate_keep(rows) == rows

DropNaRate(rows) == SelectSeq(rows, LAMBDA row : row.rate # NaN)

AddDate(rows) ==
    [k \in 1..Len(rows) |->
        [idx |-> rows[k].idx, cur |-> rows[k].cur, meas |-> rows[k].meas,
         period |-> rows[k].period, rate |-> rows[k].rate,
         date |-> ToDatetime(rows[k].period)]]

\* Variant: rows whose header did not parse are kept.
DropNaDate_keep(rows) == rows

DropNaDate(rows) == SelectSeq(rows, LAMBDA row : row.date # NaT)

\* Order of sort_values('날짜_dt'): missing dates last.
DateLeq(a, b) == b.date = NaT \/ (a.date # NaT /\ a.date[1] <= b.date[1])

\* sort_values with the default (unstable) algorithm: every ordering of the
\* rows that is ascending in the key is a possible outcome.
RECURSIVE AscendingByDate(_)
AscendingByDate(S) ==
    IF S = {} THEN { <<>> }
    ELSE UNION { { <<m>> \o t : t \in AscendingByDate(S \ {m}) } :
                   m \in { x \in S : \A y \in S : DateLeq(x, y) } }

\* Variant: the frame is left in melt order.
SortByDate_unsorted(rows) == { rows }

SortByDate(rows) == AscendingByDate(Range(rows))

None == [isNone |-> TRUE, hasMeasure |-> FALSE, rows |-> <<>>]
Frame(rows, hm) == [isNone |-> FALSE, hasMeasure |-> hm, rows |-> rows]

MsgFileError   == "error: file not found"
MsgCheckFolder == "warning: check that the csv file is in the same folder"
MsgNoData      == "warning: no data to show"
MsgNoMatch     == "warning: no data for the selected conditions"

\* The function body: the set of its possible outcomes on file f.
LoadBody(f) ==
    LET rd == ReadLoop(f, 1, <<>>) IN
    IF rd.at = 35
    THEN { [at |-> 35, tried |-> rd.tried, value |-> None, msgs |-> <<>>] }
    ELSE IF ~rd.ok
    THEN { [at |-> 40, tried |-> rd.tried, value |-> None,
            msgs |-> << MsgFileError, MsgCheckFolder >>] }
    ELSE { [at |-> 70, tried |-> rd.tried, value |-> Frame(s, f.table.hasMeasure), msgs |-> <<>>] :
             s \in SortByDate(DropNaDate(AddDate(DropNaRate(Clean(Melt(f.table)))))) }

----------------------------------------------------------------------------
(* The cache of st.cache_data *)

NoEntry == [filled |-> FALSE, value |-> None, msgs |-> <<>>]

\* Variant: the decorator never finds its entry.
CacheHit_never(c) == FALSE

CacheHit(c) == c.filled

\* load_and_preprocess_data() through its decorator: a hit returns the stored
\* value and replays the stored st.error/st.warning elements; a miss runs the body.
CachedCall(c, f) ==
    IF CacheHit(c)
    THEN { [ran |-> FALSE, at |-> 0, tried |-> <<>>, value |-> c.value, msgs |-> c.msgs] }
    ELSE { [ran |-> TRUE, at |-> o.at, tried |-> o.tried, value |-> o.value, msgs |-> o.msgs] :
             o \in LoadBody(f) }

----------------------------------------------------------------------------
(* Main script *)

\* Series.unique(): the distinct values in order of first appearance.
RECURSIVE Unique(_)
Unique(s) ==
    IF s = <<>> THEN <<>>
    ELSE LET u == Unique(SubSeq(s, 1, Len(s) - 1)) IN
         IF s[Len(s)] \in Range(u) THEN u ELSE Append(u, s[Len(s)])

CurrencyList(rows) == Unique([k \in 1..Len(rows) |-> rows[k].cur])
MeasureList(rows)  == Unique([k \in 1..Len(rows) |-> rows[k].meas])

\* '미국달러' in str(c)
HasDefaultMarker(c) == c = "KRW/USD"

DefaultIndex(cl) ==
    IF \E i \in 1..Len(cl) : HasDefaultMarker(cl[i])
    THEN CHOOSE i \in 1..Len(cl) :
            HasDefaultMarker(cl[i]) /\ \A j \in 1..(i-1) : ~HasDefaultMarker(cl[j])
    ELSE 1

\* Variant: the measure filter is applied to an empty selection too.
Mask_always(row, c, ms) == row.cur = c /\ row.meas \in ms

\* mask = (df['계정항목'] == selected_currency), & isin(selected_measure) when non-empty
Mask(row, c, ms) == row.cur = c /\ (ms = {} \/ row.meas \in ms)

Filter(rows, c, ms) == SelectSeq(rows, LAMBDA row : Mask(row, c, ms))

\* Variant: the filtered frame is never taken for empty.
FilteredEmpty_never(rows) == FALSE

\* filtered_df.empty
FilteredEmpty(rows) == rows = <<>>

\* Series.min() / Series.max(): missing values are skipped; NaN when none is left.
Rates(rows) == { rows[k].rate[1] : k \in { j \in 1..Len(rows) : rows[j].rate # NaN } }

RateMin(rows) == LET rs == Rates(rows) IN
                 IF rs = {} THEN NaN ELSE << CHOOSE v \in rs : \A w \in rs : v <= w >>
RateMax(rows) == LET rs == Rates(rows) IN
                 IF rs = {} THEN NaN ELSE << CHOOSE v \in rs : \A w \in rs : v >= w >>

\* Order of sort_values('날짜', ascending=False): the header text, descending.
PeriodGeq(a, b) == ~StrLess(a.period, b.period)

RECURSIVE DescendingByPeriod(_)
DescendingByPeriod(S) ==
    IF S = {} THEN { <<>> }
    ELSE UNION { { <<m>> \o t : t \in DescendingByPeriod(S \ {m}) } :
                   m \in { x \in S : \A y \in S : PeriodGeq(x, y) } }

\* filtered_df[final_cols]: the frame's index and the columns shown.
FinalCols(rows) ==
    [k \in 1..Len(rows) |->
        [idx |-> rows[k].idx, period |-> rows[k].period, cur |-> rows[k].cur,
         meas |-> rows[k].meas, rate |-> rows[k].rate]]

DetailSort(rows) == DescendingByPeriod(Range(FinalCols(rows)))

Blank_ui == [msgs |-> <<>>, chart |-> FALSE, metrics |-> <<>>, expander |-> FALSE,
             detail |-> <<>>, exception |-> FALSE]

\* Lines 114-150: the possible renderings of the filtered frame.
Visualize(f) ==
    IF ~FilteredEmpty(f)
    THEN IF Len(f) = 0
         THEN \* filtered_df.iloc[-1] raises after the chart was drawn
              { [Blank_ui EXCEPT !.chart = TRUE, !.exception = TRUE] }
         ELSE { [msgs |-> <<>>, chart |-> TRUE,
                 metrics |-> << [recent |-> f[Len(f)].rate, basis |-> f[Len(f)].period,
                                 min |-> RateMin(f), max |-> RateMax(f)] >>,
                 expander |-> TRUE, detail |-> d, exception |-> FALSE] :
                  d \in DetailSort(f) }
    ELSE { [Blank_ui EXCEPT !.msgs = << MsgNoMatch >>] }

\* One run of the script; first = no widget has been touched yet.
Run(first) ==
    \E res \in CachedCall(cache, file) :
        /\ res.ran => loads < MaxLoads
        /\ UNCHANGED file
        /\ cache' = [filled |-> TRUE, value |-> res.value, msgs |-> res.msgs]
        /\ loads' = IF res.ran THEN loads + 1 ELSE loads
        /\ tried' = IF res.ran THEN res.tried ELSE tried
        /\ returnedAt' = IF res.ran THEN res.at ELSE returnedAt
        /\ started' = TRUE
        /\ df' = res.value
        /\ IF ~res.value.isNone /\ res.value.rows # <<>>
           THEN LET rows == res.value.rows
                    cl == CurrencyList(rows)
                    ml == IF res.value.hasMeasure THEN MeasureList(rows) ELSE <<>>
                IN \E c \in (IF first THEN { cl[DefaultIndex(cl)] } ELSE Range(cl)),
                      ms \in (IF first THEN { Range(ml) } ELSE SUBSET Range(ml)) :
                      \E f \in { Filter(rows, c, ms) } :
                          \E out \in Visualize(f) :
                              /\ currency_list' = cl
                              /\ measure_list' = ml
                              /\ selected_currency' = c
                              /\ selected_measure' = ms
                              /\ filtered_df' = f
                              /\ ui' = [out EXCEPT !.msgs = res.msgs \o out.msgs]
           ELSE /\ currency_list' = <<>>
                /\ measure_list' = <<>>
                /\ selected_currency' = ""
                /\ selected_measure' = {}
                /\ filtered_df' = <<>>
                /\ ui' = [Blank_ui EXCEPT !.msgs =
                            IF ~res.value.isNone THEN res.msgs \o << MsgNoData >> ELSE res.msgs]

FirstRun == ~started /\ Run(TRUE)

Rerun == started /\ Run(FALSE)

\* The environment: the file at the fixed path is removed or put back.
FileRemoved ==
    /\ file.exists
    /\ file' = [file EXCEPT !.exists = FALSE]
    /\ UNCHANGED << cache, loads, tried, returnedAt, started, df, currency_list,
                    measure_list, selected_currency, selected_measure, filtered_df, ui >>

FileRestored ==
    /\ ~file.exists
    /\ file' = [file EXCEPT !.exists = TRUE]
    /\ UNCHANGED << cache, loads, tried, returnedAt, started, df, currency_list,
                    measure_list, selected_currency, selected_measure, filtered_df, ui >>

Init ==
    /\ file \in Files
    /\ cache = NoEntry
    /\ loads = 0
    /\ tried = <<>>
    /\ returnedAt = 0
    /\ started = FALSE
    /\ df = None
    /\ currency_list = <<>>
    /\ measure_list = <<>>
    /\ selected_currency = ""
    /\ selected_measure = {}
    /\ filtered_df = <<>>
    /\ ui = Blank_ui

Next == FirstRun \/ Rerun \/ FileRemoved \/ FileRestored

Spec == Init /\ [][Next]_vars

----------------------------------------------------------------------------
(* Vocabulary of the properties, stated on the raw file and the rendered page *)

NoData == ~ui.chart /\ ui.metrics = <<>> /\ ~ui.expander /\ ui.detail = <<>>

Loaded == started /\ ~df.isNone

RawCells == (1..Len(RowKeys)) \X (1..NumCols)

\* Index that melt gives the long row of raw cell (r, c).
MeltIdx(r, c) == (c - 1) * Len(RowKeys) + r

WithoutSeparators(cell) == SelectSeq(cell, LAMBDA ch : ch # 44)

\* The raw cell holds a number once its thousands separators are taken out.
CellNumeric(cell) == IsDigits(WithoutSeparators(cell))
CellValue(cell) == NumVal(WithoutSeparators(cell))

\* The columns whose header is a year/month.
MonthColumns == { c \in 1..NumCols : ToDatetime(file.table.headers[c]) # NaT }

\* Raw cell (r, c) is a valid monthly value: a number under a year/month header.
ValidCell(r, c) ==
    /\ CellNumeric(file.table.cells[r][c])
    /\ c \in MonthColumns

\* The valid monthly values of the raw table.
ValidCells ==
    LET months == MonthColumns IN
    { rc \in RawCells : rc[2] \in months /\ CellNumeric(file.table.cells[rc[1]][rc[2]]) }

\* The (currency, measure) pair of raw row r as the loaded frame labels it.
PairOf(r) == [cur |-> RowKeys[r].cur,
              meas |-> IF file.table.hasMeasure THEN RowKeys[r].meas ELSE NoMeasure]

Positions(rows, row) == { k \in 1..Len(rows) : rows[k] = row }

\* C1: when the load found the file missing (it returned from the
\* FileNotFoundError handler), the page shows at least one error or warning
\* message and no chart, metric or table.
C1_MissingFileShowsMessage ==
    (started /\ returnedAt = 35) => (ui.msgs # <<>> /\ NoData)

\* C2: the encodings are tried in the order utf-8, cp949, euc-kr; the first
\* that decodes is used and none is tried after it; when none decodes the
\* load returns nothing, a message is shown and no data is rendered.
C2_EncodingOrder ==
    (started /\ returnedAt \in {40, 70}) =>
        /\ Len(tried) \in 1..3
        /\ tried = SubSeq(<< "utf-8", "cp949", "euc-kr" >>, 1, Len(tried))
        /\ \A i \in 1..(Len(tried) - 1) : tried[i] \notin file.decodes
        /\ returnedAt = 70 => (tried[Len(tried)] \in file.decodes /\ ~df.isNone)
        /\ returnedAt = 40 =>
              /\ Len(tried) = 3
              /\ file.decodes = {}
              /\ df.isNone
              /\ ui.msgs # <<>>
              /\ NoData

C2_Witness ==
    /\ started
    /\ returnedAt = 40
    /\ file.decodes = {}
    /\ MsgFileError \in Range(ui.msgs)

\* C3: every row of a loaded table has a rate and a date parsed from its
\* header; a raw cell that is blank, or not a number after comma stripping,
\* or under a header that is not year/month, has no row.
C3_RowsAreValid ==
    Loaded =>
        LET present == { df.rows[k].idx : k \in 1..Len(df.rows) }
            months == MonthColumns
        IN
        /\ \A k \in 1..Len(df.rows) :
              /\ df.rows[k].rate # NaN
              /\ df.rows[k].date # NaT
              /\ df.rows[k].date = ToDatetime(df.rows[k].period)
        /\ \A rc \in RawCells :
              (\/ file.table.cells[rc[1]][rc[2]] = Blank
               \/ ~CellNumeric(file.table.cells[rc[1]][rc[2]])
               \/ rc[2] \notin months)
              => MeltIdx(rc[1], rc[2]) \notin present

C3_Witness ==
    /\ Loaded
    /\ df.rows # <<>>
    /\ \E rc \in RawCells : file.table.cells[rc[1]][rc[2]] = Blank
    /\ \E rc \in RawCells :
          /\ CellNumeric(file.table.cells[rc[1]][rc[2]])
          /\ ToDatetime(file.table.headers[rc[2]]) = NaT

\* C4: a (currency, measure) pair with N valid monthly values in the raw
\* table has exactly N rows in the loaded table, each carrying the header and
\* the value of the raw cell it came from; so the pairs of the loaded table
\* are the raw pairs with at least one valid value.
C4_RoundTrip ==
    Loaded =>
        LET valid == ValidCells IN
        /\ \A r \in 1..Len(RowKeys) :
              Cardinality({ k \in 1..Len(df.rows) :
                              df.rows[k].cur = PairOf(r).cur /\ df.rows[k].meas = PairOf(r).meas })
              = Cardinality({ rc \in valid : PairOf(rc[1]) = PairOf(r) })
        /\ \A k \in 1..Len(df.rows) :
              \E rc \in valid :
                  /\ df.rows[k].idx = MeltIdx(rc[1], rc[2])
                  /\ df.rows[k].period = file.table.headers[rc[2]]
                  /\ df.rows[k].rate = << CellValue(file.table.cells[rc[1]][rc[2]]) >>
                  /\ df.rows[k].cur = PairOf(rc[1]).cur
                  /\ df.rows[k].meas = PairOf(rc[1]).meas
        /\ { [cur |-> df.rows[k].cur, meas |-> df.rows[k].meas] : k \in 1..Len(df.rows) }
           = { PairOf(rc[1]) : rc \in valid }

C4_Witness ==
    /\ Loaded
    /\ \E r \in 1..Len(RowKeys) :
          /\ file.table.hasMeasure
          /\ Cardinality({ c \in 1..NumCols : ValidCell(r, c) }) = 2
          /\ Cardinality({ k \in 1..Len(df.rows) : df.rows[k].cur = RowKeys[r].cur
                                                   /\ df.rows[k].meas = RowKeys[r].meas }) = 2
          /\ \E c \in 1..NumCols : Len(file.table.cells[r][c]) = 3

\* C5: a currency whose every monthly cell is blank in the whole file is
\* never in the currency list offered for selection.
C5_BlankCurrencyNotOffered ==
    started =>
        \A r \in 1..Len(RowKeys) :
            (\A rc \in RawCells :
                RowKeys[rc[1]].cur = RowKeys[r].cur => file.table.cells[rc[1]][rc[2]] = Blank)
            => RowKeys[r].cur \notin Range(currency_list)

C5_Witness ==
    /\ started
    /\ currency_list = << "KRW/USD" >>
    /\ \A c \in 1..NumCols : file.table.cells[3][c] = Blank

\* C6: the filtered set is exactly the rows of the selected currency whose
\* measure is selected, or of any measure when no measure is selected, and it
\* keeps the loader's ascending period order.
C6_FilterExact ==
    (Loaded /\ df.rows # <<>>) =>
        /\ Range(filtered_df)
           = { row \in Range(df.rows) :
                 /\ row.cur = selected_currency
                 /\ (selected_measure # {} => row.meas \in selected_measure) }
        /\ Cardinality(Range(filtered_df)) = Len(filtered_df)
        /\ \A i, j \in 1..Len(filtered_df) :
              i < j => /\ filtered_df[i].date[1] <= filtered_df[j].date[1]
                       /\ \A a \in Positions(df.rows, filtered_df[i]) :
                             \A b \in Positions(df.rows, filtered_df[j]) : a < b

C6_Witness ==
    /\ Loaded
    /\ selected_measure = {}
    /\ { filtered_df[k].meas : k \in 1..Len(filtered_df) } = { "avg", "end" }

\* C7: the row shown as most recent is the last filtered row and has the
\* greatest period_date of the filtered set; the displayed minimum and
\* maximum are the least and greatest rate of the filtered set.
C7_SummaryCorrect ==
    ui.metrics # <<>> =>
        LET m == ui.metrics[1]
            n == Len(filtered_df)
            shown == ToDatetime(ui.metrics[1].basis)
        IN /\ n > 0
           /\ m.recent = filtered_df[n].rate
           /\ m.basis = filtered_df[n].period
           /\ \A k \in 1..n : filtered_df[k].date[1] <= shown[1]
           /\ \E k \in 1..n : filtered_df[k].rate = m.min
           /\ \E k \in 1..n : filtered_df[k].rate = m.max
           /\ \A k \in 1..n : /\ m.min[1] <= filtered_df[k].rate[1]
                              /\ filtered_df[k].rate[1] <= m.max[1]

C7_Witness ==
    /\ ui.metrics # <<>>
    /\ Len(filtered_df) = 2
    /\ ui.metrics[1].min # ui.metrics[1].max
    /\ filtered_df[1].idx > filtered_df[2].idx
    /\ filtered_df[1].date # filtered_df[2].date

C9_EmptySelectionWarns ==
    (Loaded /\ df.rows # <<>> /\ filtered_df = <<>>) =>
        /\ ui.msgs = << MsgNoMatch >>
        /\ NoData
        /\ ~ui.exception

C9_Witness ==
    /\ Loaded
    /\ df.rows # <<>>
    /\ filtered_df = <<>>
    /\ selected_currency = "KRW/DEM"
    /\ selected_measure = { "end" }

\* C10: the detail table lists the filtered rows in descending period_date
\* order: of two displayed rows with different period_date, the later comes first.
C10_DetailDescendingByDate ==
    ui.expander =>
        \A i, j \in 1..Len(ui.detail) :
            (i < j /\ ToDatetime(ui.detail[i].period) # ToDatetime(ui.detail[j].period))
            => ToDatetime(ui.detail[i].period)[1] > ToDatetime(ui.detail[j].period)[1]

====
